---- MODULE Spec2Model ----
(***************************************************************************)
(* inputTypeNumberPolyfill: the keypress and paste handlers that           *)
(* polyfillElement installs on a text control, and the functions they      *)
(* call.  Strings are sequences of character codes; a handler step is the  *)
(* handler's run followed by the browser's default action when the         *)
(* handler did not call preventDefault.                                    *)
(***************************************************************************)
EXTENDS Integers, Sequences, FiniteSets, TLC

VARIABLES
    value,      \* element.value
    selStart,   \* the control's selection span: its first index ...
    selEnd,     \* ... and the index after its last
    max,        \* element.getAttribute('max')
    env,        \* the host's selection APIs and the text selected in the page
    last,       \* the most recent step: what it would insert, and its outcome
    met         \* history: the event of an examined evaluation, the state it met

vars == <<value, selStart, selEnd, max, env, last, met>>

(*************************** bounds of the model ***************************)

\* The longest control value the model follows.
MaxValueLen == 3

(***************************** character codes *****************************)

\* typeof x === 'undefined' for a numeric event field.
Undefined == -1

\* String.fromCharCode keeps the low 16 bits of its argument.
Uint16 == 65536

\* '0' and '9', the ends of \d.
Code0 == 48
Code9 == 57

\* ':' is the character after '9': the nearest character that is no digit.
CodeColon == Code9 + 1

\* The string "undefined".
UndefinedText == <<117, 110, 100, 101, 102, 105, 110, 101, 100>>

\* A few characters selected somewhere in the page ("abc").
PageText == <<97, 98, 99>>

(******************************** strings **********************************)

\* /^\d+$/.test(s) for a string s.
TestAllDigits(s) ==
    /\ Len(s) > 0
    /\ \A i \in 1..Len(s) : s[i] \in Code0..Code9

\* An attribute or a clipboard payload: a string, or none (null / undefined).
None == [none |-> TRUE, str |-> <<>>]
Str(s) == [none |-> FALSE, str |-> s]

\* /^\d+$/.test(x) for a payload: a missing one is tested as the text
\* "undefined" (or "null"), which has no digit.
TestAllDigitsPayload(x) == IF x.none THEN FALSE ELSE TestAllDigits(x.str)

(************************* the polyfill's functions ************************)

\* getMaxValueLength without its test of the attribute against /^\d+$/.
getMaxValueLength_untested(maximumValue) ==
    IF maximumValue.none \/ Len(maximumValue.str) = 0
    THEN 0
    ELSE Len(maximumValue.str)

getMaxValueLength(maximumValue) ==
    IF maximumValue.none \/ Len(maximumValue.str) = 0
          \/ ~TestAllDigits(maximumValue.str)
    THEN 0
    ELSE Len(maximumValue.str)

codeIsADigit(code) ==
    LET stringCode == IF code = Undefined THEN 0 ELSE code % Uint16
    IN  stringCode \in Code0..Code9

\* var keyCode = (event.which) ? event.which : event.keyCode;
KeyCodeOf(event) == IF event.which # 0 THEN event.which ELSE event.keyCode

\* charCode = (typeof charCode === 'undefined') ? keyCode : charCode;
CharCodeOf(event) ==
    IF event.charCode = Undefined THEN KeyCodeOf(event) ELSE event.charCode

AnyModifier(event) ==
    event.altKey \/ event.ctrlKey \/ event.shiftKey \/ event.metaKey

charCodeIsAllowed(event) ==
    LET charCode == CharCodeOf(event)
    IN  IF charCode = 0 THEN TRUE
        ELSE IF AnyModifier(event) THEN TRUE
        ELSE IF ~codeIsADigit(charCode) THEN FALSE
        ELSE TRUE

getCharCodeLength(event) ==
    LET charCode == CharCodeOf(event)
    IN  IF charCode = 0 THEN 0
        ELSE IF AnyModifier(event) THEN 0
        ELSE IF ~codeIsADigit(charCode) THEN 0
        ELSE 1

eventKeyIsDigit(event) ==
    codeIsADigit(KeyCodeOf(event)) \/ charCodeIsAllowed(event)

clipboardIsNumeric(clipboardData) == TestAllDigitsPayload(clipboardData)

\* The outcome of a call: it returned `result`, or it threw.
Returned(x) == [threw |-> FALSE, result |-> x]
Threw == [threw |-> TRUE, result |-> 0]

\* element.selectionEnd - element.selectionStart inside the try block:
\* numbers subtract; null - null is 0; undefined - undefined is NaN, which
\* is replaced by 0; an access that throws leaves the initial 0.
DirectSelectionLength(start, end, e) ==
    IF e.selProps = "number" THEN end - start ELSE 0

getSelectedTextLength(start, end, e) ==
    LET selectionLength == DirectSelectionLength(start, end, e)
    IN  IF selectionLength # 0 THEN Returned(selectionLength)
        ELSE IF e.getSelection # "absent"
        THEN IF e.getSelection = "null"
             THEN Threw     \* null.toString()
             ELSE IF e.globalText = UndefinedText   \* selection == 'undefined'
                  THEN Returned(0)
                  ELSE Returned(Len(e.globalText))
        ELSE IF e.docSelection \notin {"absent", "None"}
        THEN IF e.docSelection = "Control"
             THEN Threw     \* a ControlRange has no text: undefined.length
             ELSE Returned(Len(e.rangeText))
        ELSE Returned(0)

eventIsBlockedByMaxWhenTyping(event, v, start, end, m, e) ==
    LET maximumValueLength == getMaxValueLength(m)
    IN  IF maximumValueLength # 0
        THEN LET selectedTextLength == getSelectedTextLength(start, end, e)
                 characterLength == getCharCodeLength(event)
             IN  IF selectedTextLength.threw THEN Threw
                 ELSE Returned(Len(v) - selectedTextLength.result
                                  + characterLength > maximumValueLength)
        ELSE Returned(FALSE)

eventIsBlockedByMaxWhenPasting(clipboardData, v, start, end, m, e) ==
    LET maximumValueLength == getMaxValueLength(m)
    IN  IF maximumValueLength # 0
        THEN LET clipboardDataLength ==
                     IF clipboardData.none THEN 0 ELSE Len(clipboardData.str)
                 selectedTextLength == getSelectedTextLength(start, end, e)
             IN  IF selectedTextLength.threw THEN Threw
                 ELSE Returned(Len(v) + clipboardDataLength
                                  - selectedTextLength.result > maximumValueLength)
        ELSE Returned(FALSE)

\* The keypress listener: [prevented, threw].  An error thrown inside the
\* listener ends it before preventDefault is reached.
KeypressListener(event, v, start, end, m, e) ==
    IF ~eventKeyIsDigit(event)
    THEN [prevented |-> TRUE, threw |-> FALSE]
    ELSE LET blocked == eventIsBlockedByMaxWhenTyping(event, v, start, end, m, e)
         IN  IF blocked.threw THEN [prevented |-> FALSE, threw |-> TRUE]
             ELSE [prevented |-> blocked.result, threw |-> FALSE]

\* The paste listener.
PasteListener(clipboardData, v, start, end, m, e) ==
    IF ~clipboardIsNumeric(clipboardData)
    THEN [prevented |-> TRUE, threw |-> FALSE]
    ELSE LET blocked ==
                 eventIsBlockedByMaxWhenPasting(clipboardData, v, start, end, m, e)
         IN  IF blocked.threw THEN [prevented |-> FALSE, threw |-> TRUE]
             ELSE [prevented |-> blocked.result, threw |-> FALSE]

(************************ the browser's default action **********************)

\* v with the span [start, end) replaced by text.
Replace(v, start, end, text) ==
    SubSeq(v, 1, start) \o text \o SubSeq(v, end + 1, Len(v))

\* What a keystroke types when it is let through: its character, unless it
\* is a non typeable key (charCode 0) or a ctrl / alt / meta shortcut.  Shift
\* types the character it is held with.
KeyText(event) ==
    LET charCode == CharCodeOf(event)
    IN  IF charCode = 0 \/ event.ctrlKey \/ event.altKey \/ event.metaKey
        THEN <<>>
        ELSE <<charCode>>

\* What a paste inserts when it is let through.
PasteText(clipboardData) == IF clipboardData.none THEN <<>> ELSE clipboardData.str

(********************************* inputs **********************************)

\* The string of n characters '9'.
RECURSIVE Nines(_)
Nines(n) == IF n = 0 THEN <<>> ELSE Append(Nines(n - 1), Code9)

\* Control values: digits only, of every length the model follows.
DigitValues == {Nines(n) : n \in 0..MaxValueLen}

\* max: absent, "", "0", "99", "9:".
Maxes == {None, Str(<<>>), Str(<<Code0>>), Str(<<Code9, Code9>>),
          Str(<<Code9, CodeColon>>)}

\* Clipboard payloads: none, "", "9", "99", "9:".
Clipboards == {None, Str(<<>>), Str(<<Code9>>), Str(<<Code9, Code9>>),
               Str(<<Code9, CodeColon>>)}

NoKey == [charCode |-> 0, which |-> 0, keyCode |-> 0, altKey |-> FALSE,
          ctrlKey |-> FALSE, shiftKey |-> FALSE, metaKey |-> FALSE]

\* Keypress events: every combination of the three code fields, with at most
\* one modifier held.  0 in which / keyCode stands for any falsy value.
KeyEvents ==
    {ev \in [charCode : {Undefined, 0, Code9, CodeColon},
             which : {0, Code9, CodeColon},
             keyCode : {0, Code9},
             altKey : BOOLEAN, ctrlKey : BOOLEAN,
             shiftKey : BOOLEAN, metaKey : BOOLEAN] :
        Cardinality({k \in {"a", "c", "s", "m"} :
                        \/ k = "a" /\ ev.altKey
                        \/ k = "c" /\ ev.ctrlKey
                        \/ k = "s" /\ ev.shiftKey
                        \/ k = "m" /\ ev.metaKey}) <= 1}

\* The keypress events a browser dispatches: a typed character comes with
\* which = charCode, a non typeable key with charCode 0 and which 0, and a
\* host without charCode (IE8) gives the character in keyCode alone.
BrowserKeyEvents ==
    {ev \in KeyEvents :
        \/ ev.charCode \notin {0, Undefined} /\ ev.which = ev.charCode
        \/ ev.charCode = 0 /\ ev.which = 0
        \/ ev.charCode = Undefined /\ ev.which = 0 /\ ev.keyCode # 0}

\* Hosts: how element.selectionStart / selectionEnd read ("null" also stands
\* for undefined, whose NaN difference is replaced by 0), whether
\* window.getSelection exists and what it returns, and the state of the
\* legacy document.selection.  A host with window.getSelection has the
\* legacy API with a text selection, or not at all.
Envs ==
    {e \in [selProps : {"number", "null", "throws"},
            getSelection : {"absent", "null", "present"},
            globalText : {<<>>, PageText, UndefinedText},
            docSelection : {"absent", "None", "Text", "Control"},
            rangeText : {<<>>, PageText}] :
        /\ e.getSelection # "present" => e.globalText = <<>>
        /\ e.getSelection # "absent" => e.docSelection \in {"absent", "Text"}
        /\ e.rangeText = <<>> <=> e.docSelection # "Text"}

NoStep == [op |-> "none", text |-> <<>>, shiftKey |-> FALSE,
           prevented |-> FALSE, threw |-> FALSE]

\* `met` when no evaluation is under examination.
NoInputs == [kept |-> FALSE]

(****************************** the machine ********************************)

\* A page whose control holds digits that respect its max.
Init ==
    /\ value \in DigitValues
    /\ max \in Maxes
    /\ getMaxValueLength(max) # 0 => Len(value) <= getMaxValueLength(max)
    /\ selStart \in 0..Len(value)
    /\ selEnd \in selStart..Len(value)
    /\ env \in Envs
    /\ last = NoStep
    /\ met = NoInputs

\* Any control of digits: the page or a script may have put a value of any
\* length in it, whatever max is.
InitEval ==
    /\ value \in DigitValues
    /\ max \in Maxes
    /\ selStart \in 0..Len(value)
    /\ selEnd \in selStart..Len(value)
    /\ env \in Envs
    /\ last = NoStep
    /\ met = NoInputs

\* The outcome of a listener's run, for `last`.
Step(op, text, shiftKey, outcome) ==
    [op |-> op, text |-> text, shiftKey |-> shiftKey,
     prevented |-> outcome.prevented, threw |-> outcome.threw]

\* The event and the state it meets, for `met`.
Inputs(event, clipboardData) ==
    [event |-> event, clip |-> clipboardData,
     value |-> value, selStart |-> selStart, selEnd |-> selEnd]

\* The default action: the selected span is replaced by text and the caret
\* is left after it.
Insert(text) ==
    /\ value' = Replace(value, selStart, selEnd, text)
    /\ selStart' = selStart + Len(text)
    /\ selEnd' = selStart + Len(text)

Keypress(event) ==
    LET outcome == KeypressListener(event, value, selStart, selEnd, max, env)
    IN  /\ last' = Step("keypress", KeyText(event), event.shiftKey, outcome)
        /\ IF outcome.prevented \/ KeyText(event) = <<>>
           THEN UNCHANGED <<value, selStart, selEnd>>
           ELSE Insert(KeyText(event))
        /\ UNCHANGED <<max, env>>

Paste(clipboardData) ==
    LET outcome == PasteListener(clipboardData, value, selStart, selEnd, max, env)
    IN  /\ last' = Step("paste", PasteText(clipboardData), FALSE, outcome)
        /\ IF outcome.prevented \/ PasteText(clipboardData) = <<>>
           THEN UNCHANGED <<value, selStart, selEnd>>
           ELSE Insert(PasteText(clipboardData))
        /\ UNCHANGED <<max, env>>

\* The user moves the caret or selects a span of the control.
Select(start, end) ==
    /\ <<start, end>> # <<selStart, selEnd>>
    /\ selStart' = start
    /\ selEnd' = end
    /\ last' = NoStep
    /\ UNCHANGED <<value, max, env>>

\* The selection outside the control changes; the host's APIs stay.
AmbientSelect(e) ==
    /\ e # env
    /\ e.selProps = env.selProps
    /\ e.getSelection = env.getSelection
    /\ (e.docSelection = "absent") <=> (env.docSelection = "absent")
    /\ env' = e
    /\ last' = NoStep
    /\ UNCHANGED <<value, selStart, selEnd, max>>

\* Any sequence of events, selections and changes of the page's selection,
\* followed while the value has at most MaxValueLen characters.
Next ==
    \/ \E event \in BrowserKeyEvents :
          Keypress(event) /\ Len(value') <= MaxValueLen /\ UNCHANGED met
    \/ \E clipboardData \in Clipboards :
          Paste(clipboardData) /\ Len(value') <= MaxValueLen /\ UNCHANGED met
    \/ \E start \in 0..Len(value) : \E end \in start..Len(value) :
          Select(start, end) /\ UNCHANGED met
    \/ \E e \in Envs : AmbientSelect(e) /\ UNCHANGED met

Spec == Init /\ [][Next]_vars

\* One evaluation from any control state, its inputs kept in `met`.
NextEval ==
    /\ last.op = "none"
    /\ \/ \E event \in KeyEvents :
             Keypress(event) /\ met' = Inputs(event, None)
       \/ \E clipboardData \in Clipboards :
             Paste(clipboardData) /\ met' = Inputs(NoKey, clipboardData)

SpecEval == InitEval /\ [][NextEval]_vars

(******************************** the claims *******************************)

\* A digit character, '0'..'9'.
IsDigitChar(c) == c \in 48..57

\* A string that matches ^\d+$ in full.
RECURSIVE IsDigitString(_)
IsDigitString(s) ==
    /\ s # <<>>
    /\ IsDigitChar(Head(s))
    /\ Tail(s) = <<>> \/ IsDigitString(Tail(s))

\* An attribute or payload that is a string matching ^\d+$.
MatchesDigits(x) == ~x.none /\ IsDigitString(x.str)

\* The max constraint is active, with digit-length Len(max.str).
MaxActive == MatchesDigits(max)

\* The step examined was a keypress / a paste.
WasKeypress == last.op = "keypress"
WasPaste == last.op = "paste"

\* The character of the examined keystroke.
MetChar == CharCodeOf(met.event)

\* The examined keystroke is admissible: charCode 0, a modifier held, or a digit.
MetAdmissible == MetChar = 0 \/ AnyModifier(met.event) \/ IsDigitChar(MetChar)

\* The number of characters an admissible keystroke counts for.
MetAdmittedLength ==
    IF MetChar # 0 /\ ~AnyModifier(met.event) /\ IsDigitChar(MetChar) THEN 1 ELSE 0

\* The examined evaluation called getSelectedTextLength: the event passed the
\* character or clipboard check and max gave a length to enforce.
MetResolverCalled ==
    /\ getMaxValueLength(max) # 0
    /\ \/ WasKeypress /\ eventKeyIsDigit(met.event)
       \/ WasPaste /\ clipboardIsNumeric(met.clip)

\* The selection length of the examined evaluation: what getSelectedTextLength
\* returned, or the length of the control's span when it returned nothing.
MetSelection == getSelectedTextLength(met.selStart, met.selEnd, env)
MetSelectionLength ==
    IF MetSelection.threw THEN met.selEnd - met.selStart ELSE MetSelection.result

\* C1: the keypress handler admits the keystroke iff it is admissible and
\* len(value) - selectionLength + admittedLength does not exceed the digit
\* length of max when the constraint is active.
C1_KeypressAdmitsIffAdmissibleAndFits ==
    WasKeypress =>
        (~last.prevented <=>
            /\ MetAdmissible
            /\ MaxActive =>
                  Len(met.value) - MetSelectionLength + MetAdmittedLength
                      <= Len(max.str))

\* C2: the paste handler admits the paste iff the payload is a non-empty
\* string of digits and len(value) - selectionLength + len(payload) does not
\* exceed the digit length of max when the constraint is active.
C2_PasteAdmitsIffNumericAndFits ==
    WasPaste =>
        (~last.prevented <=>
            /\ MatchesDigits(met.clip)
            /\ MaxActive =>
                  Len(met.value) - MetSelectionLength + Len(met.clip.str)
                      <= Len(max.str))

\* C3: from a value of digits only, after any sequence of keypress and paste
\* events the value still holds digits only.
C3_ValueStaysNumeric == \A i \in 1..Len(value) : IsDigitChar(value[i])

\* C4: with a valid max of digit-length L, from a value of at most L
\* characters, after any sequence of keypress and paste events the value
\* never has more than L characters.
C4_ValueStaysWithinMax == MaxActive => Len(value) <= Len(max.str)

\* C5: a keystroke that inserts no text (charCode 0, or a modifier held) is
\* never suppressed, whatever the value, the selection and max are.
C5_NonInsertingKeystrokeAdmitted ==
    WasKeypress /\ (MetChar = 0 \/ AnyModifier(met.event)) => ~last.prevented

\* C6: for a max that does not match ^\d+$, getMaxValueLength is 0 and neither
\* eventIsBlockedByMaxWhenTyping nor eventIsBlockedByMaxWhenPasting rejects
\* anything (the handlers' verdicts are those of the character and clipboard
\* checks alone); for a max that matches, getMaxValueLength is its character
\* count.
C6_InvalidMaxDisablesLengthCheck ==
    /\ MaxActive => getMaxValueLength(max) = Len(max.str)
    /\ ~MaxActive =>
          /\ getMaxValueLength(max) = 0
          /\ WasKeypress =>
                /\ eventIsBlockedByMaxWhenTyping(met.event, met.value,
                       met.selStart, met.selEnd, max, env) = Returned(FALSE)
                /\ last.prevented = ~eventKeyIsDigit(met.event)
                /\ ~last.threw
          /\ WasPaste =>
                /\ eventIsBlockedByMaxWhenPasting(met.clip, met.value,
                       met.selStart, met.selEnd, max, env) = Returned(FALSE)
                /\ last.prevented = ~clipboardIsNumeric(met.clip)
                /\ ~last.threw

\* C6's case: under max "9:" a paste of digits that would not fit a
\* two-character limit is let through.
C6_Witness ==
    /\ WasPaste
    /\ max = Str(<<Code9, CodeColon>>)
    /\ MatchesDigits(met.clip)
    /\ Len(met.value) - (met.selEnd - met.selStart) + Len(met.clip.str) > 2
    /\ ~last.prevented

\* C7: with no modifier held, eventKeyIsDigit is true for a keystroke whose
\* character is a digit and false for one whose character is any other
\* printable ASCII character, whatever which / keyCode hold; codeIsADigit is
\* true exactly for the digit codes among printable ASCII.
C7_KeyIsDigitIffCharacterIsDigit ==
    WasKeypress /\ ~AnyModifier(met.event) /\ MetChar \in 32..126 =>
        /\ eventKeyIsDigit(met.event) <=> IsDigitChar(MetChar)
        /\ codeIsADigit(MetChar) <=> IsDigitChar(MetChar)

\* C8: getSelectedTextLength never propagates an error to its caller: no
\* call of it throws and no listener ends with an error, whatever the three
\* strategies do.
C8_SelectionLengthNeverThrows ==
    MetResolverCalled => ~MetSelection.threw /\ ~last.threw

\* The fallback chain as claimed: the direct difference when it is a non-zero
\* number; else the length of the global selection's string form when that
\* object is available; else the legacy range's text length when the legacy
\* API is present with a text selection; else 0.
ClaimedSelectionLength(start, end, e) ==
    IF e.selProps = "number" /\ end - start # 0 THEN end - start
    ELSE IF e.getSelection = "present" THEN Len(e.globalText)
    ELSE IF e.docSelection = "Text" THEN Len(e.rangeText)
    ELSE 0

\* Two hosts with the same APIs, which differ at most in what is selected in
\* the page.
SameHost(e1, e2) ==
    /\ e1.selProps = e2.selProps
    /\ e1.getSelection = e2.getSelection
    /\ (e1.docSelection = "absent") <=> (e2.docSelection = "absent")

\* C9: the verdict depends only on the control's value and span, the event
\* and max: the same evaluation under any other selection of the page
\* (the host's APIs being the same) gives the same verdict.
C9_VerdictIndependentOfAmbientSelection ==
    \A e \in Envs : SameHost(e, env) =>
        /\ WasKeypress =>
              KeypressListener(met.event, met.value, met.selStart, met.selEnd,
                               max, e).prevented = last.prevented
        /\ WasPaste =>
              PasteListener(met.clip, met.value, met.selStart, met.selEnd,
                            max, e).prevented = last.prevented

\* C10: getSelectedTextLength returns the non-negative integer the ordered
\* fallback chain gives, the legacy strategy being tried whenever the global
\* selection strategy gives no result.
C10_SelectionLengthFollowsChain ==
    MetResolverCalled =>
        /\ ~MetSelection.threw
        /\ MetSelection.result
              = ClaimedSelectionLength(met.selStart, met.selEnd, env)
        /\ MetSelection.result >= 0

====
